---- MODULE Spec2Model ----
(***************************************************************************)
(* Contract-date alert engine of contract-backend.                         *)
(*                                                                         *)
(* Time is counted in whole days: a Date value d stands for the instant    *)
(* d * 24*60*60*1000 ms, so "date.getTime() - days*24*60*60*1000" is       *)
(* date - days.  A contract document is its two embedded arrays,           *)
(* contractDates and dateAlerts, kept as sequences in array order.  The    *)
(* fields that no decision of the alert code reads (dateType, description, *)
(* clause, createdAt) are left out.                                        *)
(***************************************************************************)
EXTENDS Integers, Sequences, FiniteSets, TLC

VARIABLES
    now,        \* wall clock, in days
    contracts,  \* contract id -> [contractDates, dateAlerts] as stored
    users,      \* the user documents that exist
    nextId,     \* number of ContractDate _ids generated so far
    lastOp,     \* the last operation and the branch it took (history)
    notified,   \* the alerts the last whole Dispatcher run called the
                \* Notifier for (history)
    failedSends,\* those of them for which the Notifier threw (history)
    wpc,        \* dispatcher run -> position in checkAndSendAlerts
    wnow,       \* dispatcher run -> its "now"
    wdocs,      \* dispatcher run -> the documents it loaded (in memory)
    wtodo,      \* dispatcher run -> contracts still to process, in order
    wdue,       \* dispatcher run -> dueAlerts (array indexes) still to do
    wmark,      \* dispatcher run -> indexes it set emailSent on, unsaved
    wsent,      \* dispatcher run -> alerts it called the Notifier for
    stale,      \* the loaded documents whose stored version (__v) has
                \* been raised since they were loaded, as <<holder, contract>>
    req,        \* the user request in progress: its position and the
                \* document it loaded
    bg          \* the scheduling or cleanup pass in progress, likewise

vars == <<now, contracts, users, nextId, lastOp, notified, failedSends,
          wpc, wnow, wdocs, wtodo, wdue, wmark, wsent, stale, req, bg>>

\* the state of the operations that are in progress
rvars == <<stale, req, bg>>

\* the state of the Dispatcher runs
dvars == <<wpc, wnow, wdocs, wtodo, wdue, wmark, wsent>>

wvars == <<dvars, rvars>>

\* what every operation but a whole Dispatcher run does to the send history
NoSends == notified' = {} /\ failedSends' = {}

(***************************************************************************)
(* Bounds of the model.                                                    *)
(***************************************************************************)
MaxNow == 12

MaxDates == 2

\* most dates stored while operations interleave
RaceMaxDates == 1

\* the last day of the run of daily tasks
MaxDay == 64

\* most Notifier calls that throw in one Dispatcher run
MaxFailures == 1

\* amounts by which the clock advances between operations
TickSteps == {6}

\* the dates a user or the Extractor supplies
DateChoices == {10, 100}

\* the reminderDays a forceCreateAlert call carries
ReminderInputs == {30}

\* the reminderDays a toggle request's body carries, in tenths: 30, 30.5, 5
ToggleInputs == {300, 305, 50}

\* the stored contracts, in the order a find() returns them
ContractOrder == <<"c1", "c2">>

ContractIds == {ContractOrder[i] : i \in 1..Len(ContractOrder)}

\* the contracts that are stored when the alert service starts
InitialContracts == {"c1"}

Runs == {"w1", "w2"}

(***************************************************************************)
(* Program constants.                                                      *)
(***************************************************************************)
reminderOptions == <<1, 3, 7, 14, 30>>

HorizonDays == 90

owner == [c \in ContractIds |-> "u1"]

UserIds == {"u1"}

(***************************************************************************)
(* Array helpers.                                                          *)
(***************************************************************************)
Range(s) == {s[i] : i \in 1..Len(s)}

\* Array.prototype.find: the first element that satisfies the test, as a
\* set of at most one element (the empty set stands for undefined).
Find(s, test(_)) ==
    LET hits == {i \in 1..Len(s) : test(s[i])}
    IN  IF hits = {} THEN {}
        ELSE {s[CHOOSE i \in hits : \A j \in hits : i <= j]}

FindIndex(s, test(_)) ==
    LET hits == {i \in 1..Len(s) : test(s[i])}
    IN  IF hits = {} THEN 0
        ELSE CHOOSE i \in hits : \A j \in hits : i <= j

NewAlert(dateId, days, scheduledDate) ==
    [contractDateId |-> dateId, reminderDays |-> days, isActive |-> TRUE,
     emailSent |-> FALSE, scheduledDate |-> scheduledDate]

NewDate(id, date, active) ==
    [id |-> id, date |-> date, isActive |-> active]

\* the code finds an alert by its (contractDateId, reminderDays); with the
\* contract that is the alert's key
AlertKey(c, a) == <<c, a.contractDateId, a.reminderDays>>

AlertKeys(c, doc) == {AlertKey(c, a) : a \in Range(doc.dateAlerts)}

(***************************************************************************)
(* AlertService.scheduleUpcomingAlerts                                     *)
(***************************************************************************)
\* faulty variant: the pass does not skip an offset whose scheduled date is past
RECURSIVE ScheduleOffsets_NoSkip(_, _, _, _)
ScheduleOffsets_NoSkip(alerts, cd, t, k) ==
    IF k > Len(reminderOptions) THEN alerts
    ELSE LET days == reminderOptions[k]
             existingAlert == Find(alerts, LAMBDA a :
                 a.contractDateId = cd.id /\ a.reminderDays = days)
         IN  IF existingAlert = {}
             THEN ScheduleOffsets_NoSkip(
                      Append(alerts, NewAlert(cd.id, days, cd.date - days)),
                      cd, t, k + 1)
             ELSE ScheduleOffsets_NoSkip(alerts, cd, t, k + 1)

\* faulty variant: the pass does not look for an existing alert of the pair
RECURSIVE ScheduleOffsets_NoFind(_, _, _, _)
ScheduleOffsets_NoFind(alerts, cd, t, k) ==
    IF k > Len(reminderOptions) THEN alerts
    ELSE LET days == reminderOptions[k]
             scheduledDate == cd.date - days
         IN  IF scheduledDate < t THEN ScheduleOffsets_NoFind(alerts, cd, t, k + 1)
             ELSE ScheduleOffsets_NoFind(
                      Append(alerts, NewAlert(cd.id, days, scheduledDate)),
                      cd, t, k + 1)

\* faulty variant: the pass switches an existing alert of the pair on again
RECURSIVE ScheduleOffsets_Reenables(_, _, _, _)
ScheduleOffsets_Reenables(alerts, cd, t, k) ==
    IF k > Len(reminderOptions) THEN alerts
    ELSE LET days == reminderOptions[k]
             scheduledDate == cd.date - days
             i == FindIndex(alerts, LAMBDA a :
                 a.contractDateId = cd.id /\ a.reminderDays = days)
         IN  IF scheduledDate < t THEN ScheduleOffsets_Reenables(alerts, cd, t, k + 1)
             ELSE IF i = 0
                  THEN ScheduleOffsets_Reenables(
                           Append(alerts, NewAlert(cd.id, days, scheduledDate)),
                           cd, t, k + 1)
                  ELSE ScheduleOffsets_Reenables(
                           [alerts EXCEPT ![i].isActive = TRUE], cd, t, k + 1)

RECURSIVE ScheduleOffsets(_, _, _, _)
ScheduleOffsets(alerts, cd, t, k) ==
    IF k > Len(reminderOptions) THEN alerts
    ELSE LET days == reminderOptions[k]
             scheduledDate == cd.date - days
             existingAlert == Find(alerts, LAMBDA a :
                 a.contractDateId = cd.id /\ a.reminderDays = days)
         IN  IF scheduledDate < t THEN ScheduleOffsets(alerts, cd, t, k + 1)
             ELSE IF existingAlert = {}
                  THEN ScheduleOffsets(
                           Append(alerts, NewAlert(cd.id, days, scheduledDate)),
                           cd, t, k + 1)
                  ELSE ScheduleOffsets(alerts, cd, t, k + 1)

\* faulty variant: the pass looks 20 days ahead
RECURSIVE ScheduleDates_ShortHorizon(_, _, _, _)
ScheduleDates_ShortHorizon(alerts, dates, t, i) ==
    IF i > Len(dates) THEN alerts
    ELSE LET cd == dates[i]
         IN  IF ~cd.isActive THEN ScheduleDates_ShortHorizon(alerts, dates, t, i + 1)
             ELSE IF cd.date < t \/ cd.date > t + 20
                  THEN ScheduleDates_ShortHorizon(alerts, dates, t, i + 1)
                  ELSE ScheduleDates_ShortHorizon(ScheduleOffsets(alerts, cd, t, 1),
                                                  dates, t, i + 1)

RECURSIVE ScheduleDates(_, _, _, _)
ScheduleDates(alerts, dates, t, i) ==
    IF i > Len(dates) THEN alerts
    ELSE LET cd == dates[i]
             futureLimit == t + HorizonDays
         IN  IF ~cd.isActive THEN ScheduleDates(alerts, dates, t, i + 1)
             ELSE IF cd.date < t \/ cd.date > futureLimit
                  THEN ScheduleDates(alerts, dates, t, i + 1)
                  ELSE ScheduleDates(ScheduleOffsets(alerts, cd, t, 1),
                                     dates, t, i + 1)

\* the find() of scheduleUpcomingAlerts: each condition on the array field
\* is met by some element, not necessarily the same one
ScheduleQuery(doc, t) ==
    /\ \E d \in Range(doc.contractDates) : d.date >= t
    /\ \E d \in Range(doc.contractDates) : d.date <= t + HorizonDays
    /\ \E d \in Range(doc.contractDates) : d.isActive

ScheduleDoc(doc, t) ==
    IF ScheduleQuery(doc, t)
    THEN [doc EXCEPT !.dateAlerts = ScheduleDates(doc.dateAlerts, doc.contractDates, t, 1)]
    ELSE doc

ScheduleAll(cs, t) == [c \in DOMAIN cs |-> ScheduleDoc(cs[c], t)]

scheduleUpcomingAlerts ==
    /\ contracts' = ScheduleAll(contracts, now)
    /\ lastOp' = "scheduleUpcomingAlerts"
    /\ NoSends
    /\ UNCHANGED <<now, users, nextId, wvars>>

(***************************************************************************)
(* addContractDate (model) and addCustomContractDate (controller)          *)
(***************************************************************************)
addContractDate(doc, id, date) ==
    [doc EXCEPT !.contractDates = Append(@, NewDate(id, date, TRUE))]

\* processContractForDates for a contract that already has dates: the
\* extraction is skipped and the scheduling pass runs
addCustomContractDate(c, date) ==
    /\ owner[c] \in users
    /\ nextId < MaxDates
    /\ LET saved == [contracts EXCEPT ![c] = addContractDate(@, nextId + 1, date)]
       IN  contracts' = ScheduleAll(saved, now)
    /\ nextId' = nextId + 1
    /\ lastOp' = "addCustomContractDate"
    /\ NoSends
    /\ UNCHANGED <<now, users, wvars>>

(***************************************************************************)
(* toggleDateAlert (model method) behind updateContractDateAlert           *)
(***************************************************************************)
\* faulty variant: re-activating an alert also resets its emailSent
toggleDateAlert_Rearm(doc, dateId, reminderDays, isActive) ==
    LET k == FindIndex(doc.dateAlerts, LAMBDA a :
                 a.contractDateId = dateId /\ a.reminderDays = reminderDays)
        contractDate == Find(doc.contractDates, LAMBDA cd : cd.id = dateId)
    IN  IF k # 0
        THEN IF isActive /\ contractDate # {}
             THEN LET cd == CHOOSE x \in contractDate : TRUE
                  IN  [doc EXCEPT !.dateAlerts[k] =
                          NewAlert(dateId, reminderDays, cd.date - reminderDays)]
             ELSE [doc EXCEPT !.dateAlerts[k].isActive = isActive]
        ELSE IF isActive /\ contractDate # {}
             THEN LET cd == CHOOSE x \in contractDate : TRUE
                  IN  [doc EXCEPT !.dateAlerts =
                          Append(@, NewAlert(dateId, reminderDays,
                                             cd.date - reminderDays))]
             ELSE doc

\* faulty variant: the scheduled date is computed with the offset's sign wrong
toggleDateAlert_PlusDays(doc, dateId, reminderDays, isActive) ==
    LET k == FindIndex(doc.dateAlerts, LAMBDA a :
                 a.contractDateId = dateId /\ a.reminderDays = reminderDays)
        contractDate == Find(doc.contractDates, LAMBDA cd : cd.id = dateId)
    IN  IF k # 0
        THEN LET existingAlert == doc.dateAlerts[k]
                 toggled == [existingAlert EXCEPT !.isActive = isActive]
                 updated ==
                     IF isActive /\ ~existingAlert.emailSent /\ contractDate # {}
                     THEN LET cd == CHOOSE x \in contractDate : TRUE
                          IN  [toggled EXCEPT !.scheduledDate = cd.date + reminderDays]
                     ELSE toggled
             IN  [doc EXCEPT !.dateAlerts[k] = updated]
        ELSE IF isActive /\ contractDate # {}
             THEN LET cd == CHOOSE x \in contractDate : TRUE
                  IN  [doc EXCEPT !.dateAlerts =
                          Append(@, NewAlert(dateId, reminderDays,
                                             cd.date + reminderDays))]
             ELSE doc

\* faulty variant: a pair that has no alert gets none
toggleDateAlert_NoCreate(doc, dateId, reminderDays, isActive) ==
    LET k == FindIndex(doc.dateAlerts, LAMBDA a :
                 a.contractDateId = dateId /\ a.reminderDays = reminderDays)
        contractDate == Find(doc.contractDates, LAMBDA cd : cd.id = dateId)
    IN  IF k # 0
        THEN LET existingAlert == doc.dateAlerts[k]
                 toggled == [existingAlert EXCEPT !.isActive = isActive]
                 updated ==
                     IF isActive /\ ~existingAlert.emailSent /\ contractDate # {}
                     THEN LET cd == CHOOSE x \in contractDate : TRUE
                          IN  [toggled EXCEPT !.scheduledDate = cd.date - reminderDays]
                     ELSE toggled
             IN  [doc EXCEPT !.dateAlerts[k] = updated]
        ELSE doc

\* faulty variant: switching an alert off takes it out of the contract
toggleDateAlert_RemovesOnOff(doc, dateId, reminderDays, isActive) ==
    LET contractDate == Find(doc.contractDates, LAMBDA cd : cd.id = dateId)
        others == SelectSeq(doc.dateAlerts, LAMBDA a :
                      ~(a.contractDateId = dateId /\ a.reminderDays = reminderDays))
    IN  IF ~isActive THEN [doc EXCEPT !.dateAlerts = others]
        ELSE IF Len(others) = Len(doc.dateAlerts) /\ contractDate # {}
             THEN LET cd == CHOOSE x \in contractDate : TRUE
                  IN  [doc EXCEPT !.dateAlerts =
                          Append(@, NewAlert(dateId, reminderDays,
                                             cd.date - reminderDays))]
             ELSE doc

\* faulty variant: a new alert is stored without looking the date up
toggleDateAlert_NoDateCheck(doc, dateId, reminderDays, isActive) ==
    LET k == FindIndex(doc.dateAlerts, LAMBDA a :
                 a.contractDateId = dateId /\ a.reminderDays = reminderDays)
        contractDate == Find(doc.contractDates, LAMBDA cd : cd.id = dateId)
        date == IF contractDate = {} THEN 0
                ELSE (CHOOSE x \in contractDate : TRUE).date
    IN  IF k # 0
        THEN LET existingAlert == doc.dateAlerts[k]
                 toggled == [existingAlert EXCEPT !.isActive = isActive]
                 updated ==
                     IF isActive /\ ~existingAlert.emailSent /\ contractDate # {}
                     THEN [toggled EXCEPT !.scheduledDate = date - reminderDays]
                     ELSE toggled
             IN  [doc EXCEPT !.dateAlerts[k] = updated]
        ELSE IF isActive
             THEN [doc EXCEPT !.dateAlerts =
                      Append(@, NewAlert(dateId, reminderDays, date - reminderDays))]
             ELSE doc

toggleDateAlert(doc, dateId, reminderDays, isActive) ==
    LET k == FindIndex(doc.dateAlerts, LAMBDA a :
                 a.contractDateId = dateId /\ a.reminderDays = reminderDays)
        contractDate == Find(doc.contractDates, LAMBDA cd : cd.id = dateId)
    IN  IF k # 0
        THEN LET existingAlert == doc.dateAlerts[k]
                 toggled == [existingAlert EXCEPT !.isActive = isActive]
                 updated ==
                     IF isActive /\ ~existingAlert.emailSent /\ contractDate # {}
                     THEN LET cd == CHOOSE x \in contractDate : TRUE
                          IN  [toggled EXCEPT !.scheduledDate = cd.date - reminderDays]
                     ELSE toggled
             IN  [doc EXCEPT !.dateAlerts[k] = updated]
        ELSE IF isActive /\ contractDate # {}
             THEN LET cd == CHOOSE x \in contractDate : TRUE
                  IN  [doc EXCEPT !.dateAlerts =
                          Append(@, NewAlert(dateId, reminderDays,
                                             cd.date - reminderDays))]
             ELSE doc

\* the branch of toggleDateAlert a call takes
ToggleBranch(doc, dateId, reminderDays, isActive) ==
    LET k == FindIndex(doc.dateAlerts, LAMBDA a :
                 a.contractDateId = dateId /\ a.reminderDays = reminderDays)
    IN  IF k # 0
        THEN IF isActive /\ ~doc.dateAlerts[k].emailSent
             THEN IF doc.dateAlerts[k].isActive THEN "toggleDateAlert:recompute"
                  ELSE "toggleDateAlert:reactivate"
             ELSE IF isActive THEN "toggleDateAlert:on"
                  ELSE "toggleDateAlert:off"
        ELSE IF isActive /\ Find(doc.contractDates, LAMBDA cd : cd.id = dateId) # {}
             THEN "toggleDateAlert:create"
             ELSE "toggleDateAlert:none"

\* parseInt of a reminderDays given in tenths: the digits before the point
parseInt(x) == x \div 10

\* reminderDays is the request body's value, in tenths (75 stands for 7.5)
updateContractDateAlert(c, dateId, reminderDays, isActive) ==
    /\ owner[c] \in users
    /\ IF reminderDays = 0 \/ parseInt(reminderDays) \notin {1, 3, 7, 14, 30}
       THEN /\ UNCHANGED contracts
            /\ lastOp' = "updateContractDateAlert:400"
       ELSE /\ contracts' = [contracts EXCEPT
                   ![c] = toggleDateAlert(@, dateId, parseInt(reminderDays), isActive)]
            /\ lastOp' = ToggleBranch(contracts[c], dateId,
                                      parseInt(reminderDays), isActive)
    /\ NoSends
    /\ UNCHANGED <<now, users, nextId, wvars>>

(***************************************************************************)
(* AlertService.forceCreateAlert                                           *)
(***************************************************************************)
\* faulty variant: the existing alert of the pair is not removed first
forceCreateAlertDoc_NoRemove(doc, dateId, reminderDays) ==
    LET contractDate == Find(doc.contractDates, LAMBDA cd : cd.id = dateId)
        cd == CHOOSE x \in contractDate : TRUE
    IN  [doc EXCEPT !.dateAlerts =
            Append(@, NewAlert(dateId, reminderDays, cd.date - reminderDays))]

\* faulty variant: nothing is stored for a date that is not active
forceCreateAlertDoc_SkipsInactive(doc, dateId, reminderDays) ==
    LET contractDate == Find(doc.contractDates, LAMBDA cd : cd.id = dateId)
        cd == CHOOSE x \in contractDate : TRUE
        kept == SelectSeq(doc.dateAlerts, LAMBDA a :
                    ~(a.contractDateId = dateId /\ a.reminderDays = reminderDays))
    IN  IF ~cd.isActive THEN doc
        ELSE [doc EXCEPT !.dateAlerts =
                 Append(kept, NewAlert(dateId, reminderDays, cd.date - reminderDays))]

forceCreateAlertDoc(doc, dateId, reminderDays) ==
    LET contractDate == Find(doc.contractDates, LAMBDA cd : cd.id = dateId)
        cd == CHOOSE x \in contractDate : TRUE
        scheduledDate == cd.date - reminderDays
        kept == SelectSeq(doc.dateAlerts, LAMBDA a :
                    ~(a.contractDateId = dateId /\ a.reminderDays = reminderDays))
    IN  [doc EXCEPT !.dateAlerts =
            Append(kept, NewAlert(dateId, reminderDays, scheduledDate))]

\* 'Contract not found' and 'Contract date not found' are thrown before
\* anything is changed, logged and thrown again to the caller
forceCreateAlert(c, dateId, reminderDays) ==
    /\ IF c \notin DOMAIN contracts
       THEN /\ UNCHANGED contracts
            /\ lastOp' = "forceCreateAlert:error"
       ELSE IF Find(contracts[c].contractDates, LAMBDA cd : cd.id = dateId) = {}
       THEN /\ UNCHANGED contracts
            /\ lastOp' = "forceCreateAlert:error"
       ELSE /\ contracts' = [contracts EXCEPT
                   ![c] = forceCreateAlertDoc(@, dateId, reminderDays)]
            /\ lastOp' = IF AlertKey(c, [contractDateId |-> dateId,
                                         reminderDays |-> reminderDays])
                              \in AlertKeys(c, contracts[c])
                         THEN "forceCreateAlert:replace" ELSE "forceCreateAlert:new"
    /\ NoSends
    /\ UNCHANGED <<now, users, nextId, wvars>>

(***************************************************************************)
(* deleteContractDate (controller)                                         *)
(***************************************************************************)
\* faulty variant: the date is removed, its alerts are not
deleteContractDateDoc_NoCascade(doc, dateId) ==
    [doc EXCEPT !.contractDates = SelectSeq(@, LAMBDA d : d.id # dateId)]

deleteContractDateDoc(doc, dateId) ==
    [contractDates |-> SelectSeq(doc.contractDates, LAMBDA d : d.id # dateId),
     dateAlerts |-> SelectSeq(doc.dateAlerts, LAMBDA a : a.contractDateId # dateId)]

deleteContractDate(c, dateId) ==
    /\ owner[c] \in users
    /\ \E d \in Range(contracts[c].contractDates) : d.id = dateId
    /\ contracts' = [contracts EXCEPT ![c] = deleteContractDateDoc(@, dateId)]
    /\ lastOp' = "deleteContractDate"
    /\ NoSends
    /\ UNCHANGED <<now, users, nextId, wvars>>

(***************************************************************************)
(* AlertService.cleanupOldAlerts                                           *)
(***************************************************************************)
CleanupQuery(doc, t) == \E d \in Range(doc.contractDates) : d.date < t

\* faulty variant: the passed dates are removed, their alerts are not
cleanupDoc_NoCascade(doc, t) ==
    [doc EXCEPT !.contractDates = SelectSeq(@, LAMBDA d : d.date >= t)]

cleanupDoc(doc, t) ==
    LET activeDates == SelectSeq(doc.contractDates, LAMBDA d : d.date >= t)
        dates1 == IF Len(activeDates) # Len(doc.contractDates)
                  THEN activeDates ELSE doc.contractDates
        activeAlerts == SelectSeq(doc.dateAlerts, LAMBDA a :
            LET contractDate == Find(dates1, LAMBDA cd : cd.id = a.contractDateId)
            IN  contractDate # {} /\ \A cd \in contractDate : cd.date >= t)
        alerts1 == IF Len(activeAlerts) # Len(doc.dateAlerts)
                   THEN activeAlerts ELSE doc.dateAlerts
    IN  [contractDates |-> dates1, dateAlerts |-> alerts1]

CleanupAll(cs, t) ==
    [c \in DOMAIN cs |-> IF CleanupQuery(cs[c], t) THEN cleanupDoc(cs[c], t) ELSE cs[c]]

cleanupOldAlerts ==
    /\ contracts' = CleanupAll(contracts, now)
    /\ lastOp' = "cleanupOldAlerts"
    /\ NoSends
    /\ UNCHANGED <<now, users, nextId, wvars>>

(***************************************************************************)
(* AlertService.checkAndSendAlerts, run from start to end on its own       *)
(***************************************************************************)
\* faulty variant: the filter forgets the alert's isActive
IsDue_IgnoresActive(a, t) == a.scheduledDate <= t /\ ~a.emailSent

IsDue(a, t) == a.scheduledDate <= t /\ a.isActive /\ ~a.emailSent

\* the $elemMatch query of the find()
DueQuery(doc, t) == \E a \in Range(doc.dateAlerts) : IsDue(a, t)

\* the indexes of dueAlerts, in array order
dueAlerts(doc, t) == {i \in 1..Len(doc.dateAlerts) : IsDue(doc.dateAlerts[i], t)}

HasContractDate(doc, a) ==
    Find(doc.contractDates, LAMBDA cd : cd.id = a.contractDateId) # {}

\* the alerts sendDateAlertEmail is called for in one contract
Sendable(doc, t) == {i \in dueAlerts(doc, t) : HasContractDate(doc, doc.dateAlerts[i])}

\* the contracts a run processes: matched by the query, with a populated user
Processed(cs, us, t) == {c \in DOMAIN cs : DueQuery(cs[c], t) /\ owner[c] \in us}

Calls(cs, us, t) ==
    UNION {{<<c, i>> : i \in Sendable(cs[c], t)} : c \in Processed(cs, us, t)}

MarkSent(doc, idx) ==
    [doc EXCEPT !.dateAlerts =
        [i \in 1..Len(doc.dateAlerts) |->
            IF i \in idx THEN [doc.dateAlerts[i] EXCEPT !.emailSent = TRUE]
            ELSE doc.dateAlerts[i]]]

\* faulty variant: a Notifier call that throws ends the run before any save
checkAndSendAlerts_AbortsOnFailure(failed) ==
    LET calls == Calls(contracts, users, now)
    IN  /\ failed \subseteq calls
        /\ contracts' = [c \in DOMAIN contracts |->
               MarkSent(contracts[c], {i \in 1..Len(contracts[c].dateAlerts) :
                                         failed = {} /\ <<c, i>> \in calls})]
        /\ lastOp' = "checkAndSendAlerts"
        /\ notified' = {AlertKey(x[1], contracts[x[1]].dateAlerts[x[2]]) : x \in calls}
        /\ failedSends' = {AlertKey(x[1], contracts[x[1]].dateAlerts[x[2]]) : x \in failed}
        /\ UNCHANGED <<now, users, nextId, wvars>>

\* failed: the calls for which sendDateAlertEmail throws
checkAndSendAlerts(failed) ==
    LET calls == Calls(contracts, users, now)
    IN  /\ failed \subseteq calls
        /\ contracts' = [c \in DOMAIN contracts |->
               MarkSent(contracts[c], {i \in 1..Len(contracts[c].dateAlerts) :
                                         <<c, i>> \in calls \ failed})]
        /\ lastOp' = "checkAndSendAlerts"
        /\ notified' = {AlertKey(x[1], contracts[x[1]].dateAlerts[x[2]]) : x \in calls}
        /\ failedSends' = {AlertKey(x[1], contracts[x[1]].dateAlerts[x[2]]) : x \in failed}
        /\ UNCHANGED <<now, users, nextId, wvars>>

(***************************************************************************)
(* getContractDates (controller): extraction on first view                 *)
(***************************************************************************)
\* what extractContractDates may return; it may also throw
ExtractorResults ==
    {<<>>,
     <<[date |-> 10, confidence |-> "high"]>>,
     <<[date |-> 10, confidence |-> "medium"]>>,
     <<[date |-> 10, confidence |-> "low"]>>}

\* faulty variant: every extracted date is stored active
ExtractedDates_AllActive(dates, firstId) ==
    [i \in 1..Len(dates) |-> NewDate(firstId + i - 1, dates[i].date, TRUE)]

ExtractedDates(dates, firstId) ==
    [i \in 1..Len(dates) |->
        NewDate(firstId + i - 1, dates[i].date, dates[i].confidence = "high")]

getContractDates(c, threw, extracted) ==
    /\ owner[c] \in users
    /\ contracts[c].contractDates = <<>>
    /\ nextId + Len(extracted) <= MaxDates
    /\ IF threw \/ Len(extracted) = 0
       THEN UNCHANGED <<contracts, nextId>>
       ELSE /\ LET saved == [contracts EXCEPT ![c].contractDates =
                                ExtractedDates(extracted, nextId + 1)]
               IN  contracts' = ScheduleAll(saved, now)
            /\ nextId' = nextId + Len(extracted)
    /\ lastOp' = IF threw \/ Len(extracted) = 0 THEN "getContractDates:none"
                 ELSE "getContractDates"
    /\ NoSends
    /\ UNCHANGED <<now, users, wvars>>

(***************************************************************************)
(* deleteAccount (user controller): the user goes, the contracts stay      *)
(***************************************************************************)
deleteAccount(u) ==
    /\ u \in users
    /\ users' = users \ {u}
    /\ lastOp' = "deleteAccount"
    /\ NoSends
    /\ UNCHANGED <<now, contracts, nextId, wvars>>

Tick(d) ==
    /\ now + d <= MaxNow
    /\ now' = now + d
    /\ lastOp' = "tick"
    /\ NoSends
    /\ UNCHANGED <<contracts, users, nextId, wvars>>

(***************************************************************************)
(* AlertService.checkAndSendAlerts as it runs: one step per await.  Two    *)
(* runs (two instances, or a cron run overlapping a triggerImmediateCheck) *)
(* take their steps in any order.                                          *)
(***************************************************************************)
\* indexes in ascending order, as Array.prototype.filter keeps them
RECURSIVE SortedSeq(_)
SortedSeq(S) ==
    IF S = {} THEN <<>>
    ELSE LET m == CHOOSE x \in S : \A y \in S : x <= y
         IN  <<m>> \o SortedSeq(S \ {m})

\* await find(...).populate('userId')
DispatchFind(w) ==
    /\ wpc[w] = "idle"
    /\ wpc' = [wpc EXCEPT ![w] = "contract"]
    /\ wnow' = [wnow EXCEPT ![w] = now]
    /\ wdocs' = [wdocs EXCEPT ![w] =
           [c \in {x \in DOMAIN contracts : DueQuery(contracts[x], now)} |->
               [doc |-> contracts[c], user |-> owner[c] \in users]]]
    /\ wtodo' = [wtodo EXCEPT ![w] =
           SelectSeq(ContractOrder, LAMBDA c :
               c \in DOMAIN contracts /\ DueQuery(contracts[c], now))]
    /\ wsent' = [wsent EXCEPT ![w] = {}]
    /\ lastOp' = "DispatchFind"
    /\ NoSends
    /\ UNCHANGED <<now, contracts, users, nextId, wdue, wmark, rvars>>

\* top of the loop over contracts: the user check and the dueAlerts filter
DispatchContract(w) ==
    /\ wpc[w] = "contract"
    /\ IF wtodo[w] = <<>>
       THEN /\ wpc' = [wpc EXCEPT ![w] = "idle"]
            /\ wdocs' = [wdocs EXCEPT ![w] = <<>>]
            /\ wsent' = [wsent EXCEPT ![w] = {}]
            /\ UNCHANGED <<wtodo, wdue, stale>>
       ELSE LET c == Head(wtodo[w])
            IN  IF ~wdocs[w][c].user
                THEN /\ wtodo' = [wtodo EXCEPT ![w] = Tail(@)]
                     /\ stale' = stale \ {<<w, c>>}
                     /\ UNCHANGED <<wpc, wdocs, wdue, wsent>>
                ELSE /\ wdue' = [wdue EXCEPT ![w] =
                            SortedSeq(dueAlerts(wdocs[w][c].doc, wnow[w]))]
                     /\ wpc' = [wpc EXCEPT ![w] = "alerts"]
                     /\ UNCHANGED <<wtodo, wdocs, wsent, stale>>
    /\ lastOp' = "DispatchContract"
    /\ NoSends
    /\ UNCHANGED <<now, contracts, users, nextId, wnow, wmark, req, bg>>

\* one turn of the loop over dueAlerts: await sendDateAlertEmail(...), which
\* returns (ok) or throws, then alert.emailSent = true on the loaded document
DispatchSend(w, ok) ==
    /\ wpc[w] = "alerts"
    /\ wdue[w] # <<>>
    /\ LET c == Head(wtodo[w])
           i == Head(wdue[w])
           doc == wdocs[w][c].doc
           alert == doc.dateAlerts[i]
       IN  IF ~HasContractDate(doc, alert)
           THEN /\ ok
                /\ UNCHANGED <<wsent, wdocs, wmark>>
           ELSE /\ wsent' = [wsent EXCEPT ![w] = @ \cup {AlertKey(c, alert)}]
                /\ IF ok
                   THEN /\ wdocs' = [wdocs EXCEPT
                               ![w][c].doc.dateAlerts[i].emailSent = TRUE]
                        /\ wmark' = [wmark EXCEPT ![w] = @ \cup {i}]
                   ELSE UNCHANGED <<wdocs, wmark>>
    /\ wdue' = [wdue EXCEPT ![w] = Tail(@)]
    /\ lastOp' = "DispatchSend"
    /\ NoSends
    /\ UNCHANGED <<now, contracts, users, nextId, wpc, wnow, wtodo, rvars>>

\* contract.save(): the document's modified paths are written, here the
\* emailSent of the alerts this run marked
SaveMarked(stored, marked) ==
    [stored EXCEPT !.dateAlerts =
        [i \in 1..Len(stored.dateAlerts) |->
            IF i \in marked THEN [stored.dateAlerts[i] EXCEPT !.emailSent = TRUE]
            ELSE stored.dateAlerts[i]]]

\* a save that sets a field of an array element (dateAlerts.i.emailSent)
\* is sent with the version the document was loaded at; if the stored
\* version has been raised, save() throws a VersionError, which leaves the
\* loop over the contracts for the catch of the whole run.  A save with
\* nothing modified sends nothing.
DispatchSave(w) ==
    /\ wpc[w] = "alerts"
    /\ wdue[w] = <<>>
    /\ LET c == Head(wtodo[w])
       IN  IF wmark[w] = {} \/ <<w, c>> \notin stale
           THEN /\ contracts' = [contracts EXCEPT ![c] = SaveMarked(@, wmark[w])]
                /\ wtodo' = [wtodo EXCEPT ![w] = Tail(@)]
                /\ wpc' = [wpc EXCEPT ![w] = "contract"]
                /\ lastOp' = "DispatchSave"
                /\ UNCHANGED <<wdocs, wsent>>
           ELSE /\ wtodo' = [wtodo EXCEPT ![w] = <<>>]
                /\ wpc' = [wpc EXCEPT ![w] = "idle"]
                /\ wdocs' = [wdocs EXCEPT ![w] = <<>>]
                /\ wsent' = [wsent EXCEPT ![w] = {}]
                /\ lastOp' = "DispatchSave:VersionError"
                /\ UNCHANGED contracts
    /\ stale' = {x \in stale : x[1] # w \/ x[2] \in Range(wtodo'[w])}
    /\ wmark' = [wmark EXCEPT ![w] = {}]
    /\ NoSends
    /\ UNCHANGED <<now, users, nextId, wnow, wdue, req, bg>>

AllIdle == \A w \in Runs : wpc[w] = "idle"

(***************************************************************************)
(* Specification: the operations executed one at a time.                   *)
(***************************************************************************)
EmptyDoc == [contractDates |-> <<>>, dateAlerts |-> <<>>]

\* no request (no pass) in progress
NoRequest == [op |-> "none", pc |-> "none", c |-> "none", doc |-> EmptyDoc,
              dateId |-> 0, reminderDays |-> 0, isActive |-> FALSE,
              date |-> 0, t |-> 0]

Init ==
    /\ now = 0
    /\ contracts = [c \in InitialContracts |-> EmptyDoc]
    /\ users = UserIds
    /\ nextId = 0
    /\ lastOp = "init"
    /\ notified = {}
    /\ failedSends = {}
    /\ wpc = [w \in Runs |-> "idle"]
    /\ wnow = [w \in Runs |-> 0]
    /\ wdocs = [w \in Runs |-> <<>>]
    /\ wtodo = [w \in Runs |-> <<>>]
    /\ wdue = [w \in Runs |-> <<>>]
    /\ wmark = [w \in Runs |-> {}]
    /\ wsent = [w \in Runs |-> {}]
    /\ stale = {}
    /\ req = NoRequest
    /\ bg = NoRequest

Next ==
    \/ \E c \in DOMAIN contracts, date \in DateChoices : addCustomContractDate(c, date)
    \/ \E c \in DOMAIN contracts, id \in 1..MaxDates, days \in ToggleInputs, on \in BOOLEAN :
           updateContractDateAlert(c, id, days, on)
    \/ \E c \in ContractIds, id \in 1..MaxDates, days \in ReminderInputs :
           forceCreateAlert(c, id, days)
    \/ \E c \in DOMAIN contracts, id \in 1..MaxDates : deleteContractDate(c, id)
    \/ \E c \in DOMAIN contracts, threw \in BOOLEAN, extracted \in ExtractorResults :
           getContractDates(c, threw, extracted)
    \/ \E u \in UserIds : deleteAccount(u)
    \/ scheduleUpcomingAlerts
    \/ \E failed \in SUBSET Calls(contracts, users, now) :
           Cardinality(failed) <= MaxFailures /\ checkAndSendAlerts(failed)
    \/ cleanupOldAlerts
    \/ \E d \in TickSteps : Tick(d)

Spec == Init /\ [][Next]_vars

(***************************************************************************)
(* Specification: two Dispatcher runs that may overlap, at a fixed time;   *)
(* the requests that set the alerts up arrive between runs.                *)
(***************************************************************************)
NextConc ==
    \/ AllIdle /\ \E c \in DOMAIN contracts, date \in DateChoices :
                      addCustomContractDate(c, date)
    \/ AllIdle /\ \E c \in DOMAIN contracts, id \in 1..MaxDates,
                      days \in ToggleInputs, on \in BOOLEAN :
                      updateContractDateAlert(c, id, days, on)
    \/ \E w \in Runs : DispatchFind(w)
    \/ \E w \in Runs : DispatchContract(w)
    \/ \E w \in Runs, ok \in BOOLEAN : DispatchSend(w, ok)
    \/ \E w \in Runs : DispatchSave(w)

SpecConc == Init /\ [][NextConc]_vars

(***************************************************************************)
(* analyzeContract (controller): a new contract document is saved and      *)
(* processContractForDates runs for it before the response                 *)
(***************************************************************************)
\* faulty variant: an Extractor error leaves processContractForDates
processContractForDatesThrows_Rethrow(threw) == threw

\* whether processContractForDates throws to its caller: an Extractor error
\* is taken by the catch around the extraction, anything else by the catch
\* around the whole body
processContractForDatesThrows(threw) == FALSE

\* processContractForDates(c) on the stored contracts cs: the extraction if
\* c has no dates, then scheduleUpcomingAlerts()
processContractForDates(cs, c, threw, extracted, firstId, t) ==
    LET saved == IF cs[c].contractDates = <<>> /\ ~threw /\ Len(extracted) > 0
                 THEN [cs EXCEPT ![c].contractDates = ExtractedDates(extracted, firstId)]
                 ELSE cs
    IN  ScheduleAll(saved, t)

analyzeContract(c, threw, extracted) ==
    /\ c \notin DOMAIN contracts
    /\ owner[c] \in users
    /\ nextId + Len(extracted) <= MaxDates
    /\ LET savedAnalysis == [x \in DOMAIN contracts \cup {c} |->
                                IF x = c THEN EmptyDoc ELSE contracts[x]]
       IN  contracts' = processContractForDates(savedAnalysis, c, threw,
                                                extracted, nextId + 1, now)
    /\ nextId' = IF threw THEN nextId ELSE nextId + Len(extracted)
    /\ lastOp' = IF processContractForDatesThrows(threw)
                 THEN "analyzeContract:200:dateError"
                 ELSE "analyzeContract:200"
    /\ NoSends
    /\ UNCHANGED <<now, users, wvars>>

(***************************************************************************)
(* Specification: contracts are analysed while others are stored; the      *)
(* operations run one at a time.                                           *)
(***************************************************************************)
NextMulti ==
    \/ \E c \in ContractIds, threw \in BOOLEAN, extracted \in ExtractorResults :
           analyzeContract(c, threw, extracted)
    \/ \E c \in DOMAIN contracts, date \in DateChoices : addCustomContractDate(c, date)
    \/ \E c \in DOMAIN contracts, id \in 1..MaxDates : deleteContractDate(c, id)
    \/ scheduleUpcomingAlerts
    \/ \E d \in TickSteps : Tick(d)

SpecMulti == Init /\ [][NextMulti]_vars

(***************************************************************************)
(* Specification: the alert service as init() leaves it running.  The      *)
(* hourly task runs checkAndSendAlerts again and again, the daily task     *)
(* runs scheduleUpcomingAlerts, and the clock advances; whether a Notifier *)
(* call succeeds is not up to the service.  cleanupOldAlerts has no task:  *)
(* it runs when an administrator calls adminAlertControls.cleanup, which   *)
(* nothing obliges to happen.                                              *)
(***************************************************************************)
\* the run of the hourly task
CronRun == "w1"

HourlyTask ==
    \/ DispatchFind(CronRun)
    \/ DispatchContract(CronRun)
    \/ \E ok \in BOOLEAN : DispatchSend(CronRun, ok)
    \/ DispatchSave(CronRun)

DailyTask == AllIdle /\ scheduleUpcomingAlerts

ClockAdvance == \E d \in TickSteps : Tick(d)

NextLive ==
    \/ AllIdle /\ \E c \in DOMAIN contracts, date \in DateChoices :
                      addCustomContractDate(c, date)
    \/ AllIdle /\ cleanupOldAlerts
    \/ HourlyTask
    \/ DailyTask
    \/ ClockAdvance

SpecLive ==
    /\ Init
    /\ [][NextLive]_vars
    /\ WF_vars(HourlyTask)
    /\ WF_vars(DailyTask)
    /\ WF_vars(ClockAdvance)

(***************************************************************************)
(* Specification: the daily task over two months.  A day ends only after   *)
(* scheduleUpcomingAlerts has run in it; dates are stored on a few days,   *)
(* far ahead or (on day 0) near.                                           *)
(***************************************************************************)
\* how far ahead a far date is when it is stored: just beyond 31 days, and
\* beyond the 90-day horizon
FarAheads == {32, 93}

\* the days on which a request stores a date
StoreDays == {0, 5}

NearDates == {10}

StoreFarDate(c, ahead) ==
    /\ now \in StoreDays
    /\ addCustomContractDate(c, now + ahead)

StoreNearDate(c, date) ==
    /\ now = 0
    /\ addCustomContractDate(c, date)

NextDay ==
    /\ lastOp = "scheduleUpcomingAlerts"
    /\ now < MaxDay
    /\ now' = now + 1
    /\ lastOp' = "tick"
    /\ NoSends
    /\ UNCHANGED <<contracts, users, nextId, wvars>>

NextDaily ==
    \/ \E c \in DOMAIN contracts, ahead \in FarAheads : StoreFarDate(c, ahead)
    \/ \E c \in DOMAIN contracts, date \in NearDates : StoreNearDate(c, date)
    \/ scheduleUpcomingAlerts
    \/ NextDay

SpecDaily == Init /\ [][NextDaily]_vars

(***************************************************************************)
(* The requests and passes as they run against the database: one step per  *)
(* find and per save.  A save sends the changes made to the loaded         *)
(* document, not the document: elements pushed onto an array are appended  *)
(* to the stored array and raise the version; an array that was assigned   *)
(* is written whole, and a field of an array element is set in place, both *)
(* only if the stored version is the loaded one (else save() throws a      *)
(* VersionError); assigning an array raises the version as well.           *)
(***************************************************************************)
\* the document of contract c as a find loads it now
Load(op, pc, c) ==
    [NoRequest EXCEPT !.op = op, !.pc = pc, !.c = c, !.doc = contracts[c],
                      !.t = now]

\* the holders of a loaded document of c whose save will carry the loaded
\* version: a toggle or a delete request, an extraction under way, a
\* cleanup, a Dispatcher run that has c still to save
Holders(c) ==
    {p \in {"req"} : /\ req.c = c
                     /\ \/ req.op \in {"toggle", "delete"}
                        \/ req.op = "add" /\ req.pc = "extract"}
    \cup {p \in {"bg"} : bg.c = c /\ bg.op = "cleanup"}
    \cup {w \in Runs : c \in Range(wtodo[w])}

\* the save of holder p raises the version of c: the documents of c that
\* others hold become stale, and p holds none any more
Raise(p, c) == stale' = (stale \cup {<<q, c>> : q \in Holders(c)}) \ {<<p, c>>}

\* holder p lets go of its document of c, or loads it afresh
Release(p, c) == stale' = stale \ {<<p, c>>}

\* the elements a save appends: those the array in memory has beyond the
\* loaded ones
Pushed(loaded, inMemory) == SubSeq(inMemory, Len(loaded) + 1, Len(inMemory))

\* a save of fields set on loaded alerts: a field that differs from its
\* loaded value is written, the others are left as stored
SetModified(stored, loaded, inMemory) ==
    [stored EXCEPT !.dateAlerts =
        [i \in 1..Len(stored.dateAlerts) |->
            IF i > Len(loaded.dateAlerts) THEN stored.dateAlerts[i]
            ELSE LET was == loaded.dateAlerts[i]
                     is == inMemory.dateAlerts[i]
                 IN  [stored.dateAlerts[i] EXCEPT
                        !.isActive = IF is.isActive # was.isActive
                                     THEN is.isActive ELSE @,
                        !.scheduledDate = IF is.scheduledDate # was.scheduledDate
                                          THEN is.scheduledDate ELSE @,
                        !.emailSent = IF is.emailSent # was.emailSent
                                      THEN is.emailSent ELSE @]]]

\* a save of arrays that were assigned: an array that differs from the
\* loaded one is written whole
SetArrays(stored, loaded, inMemory) ==
    [contractDates |-> IF inMemory.contractDates # loaded.contractDates
                       THEN inMemory.contractDates ELSE stored.contractDates,
     dateAlerts |-> IF inMemory.dateAlerts # loaded.dateAlerts
                    THEN inMemory.dateAlerts ELSE stored.dateAlerts]

\* updateContractDateAlert: findOne
ToggleFind(c, dateId, reminderDays, isActive) ==
    /\ req.op = "none"
    /\ owner[c] \in users
    /\ parseInt(reminderDays) \in {1, 3, 7, 14, 30}
    /\ req' = [Load("toggle", "save", c) EXCEPT
                  !.dateId = dateId, !.reminderDays = parseInt(reminderDays),
                  !.isActive = isActive]
    /\ NoSends
    /\ UNCHANGED <<now, contracts, users, nextId, lastOp, dvars, stale, bg>>

\* updateContractDateAlert: toggleDateAlert on the loaded document and its
\* save()
ToggleSave ==
    /\ req.op = "toggle"
    /\ LET c == req.c
           inMemory == toggleDateAlert(req.doc, req.dateId, req.reminderDays,
                                       req.isActive)
           branch == ToggleBranch(req.doc, req.dateId, req.reminderDays,
                                  req.isActive)
       IN  IF inMemory = req.doc
           THEN /\ lastOp' = branch
                /\ Release("req", c)
                /\ UNCHANGED contracts
           ELSE IF branch = "toggleDateAlert:create"
           THEN /\ contracts' = [contracts EXCEPT ![c].dateAlerts =
                       @ \o Pushed(req.doc.dateAlerts, inMemory.dateAlerts)]
                /\ Raise("req", c)
                /\ lastOp' = branch
           ELSE IF <<"req", c>> \notin stale
           THEN /\ contracts' = [contracts EXCEPT
                       ![c] = SetModified(@, req.doc, inMemory)]
                /\ lastOp' = branch
                /\ UNCHANGED stale
           ELSE /\ lastOp' = "updateContractDateAlert:500"
                /\ Release("req", c)
                /\ UNCHANGED contracts
    /\ req' = NoRequest
    /\ NoSends
    /\ UNCHANGED <<now, users, nextId, dvars, bg>>

\* deleteContractDate: findOne and the dateExists check
DeleteFind(c, dateId) ==
    /\ req.op = "none"
    /\ owner[c] \in users
    /\ \E d \in Range(contracts[c].contractDates) : d.id = dateId
    /\ req' = [Load("delete", "save", c) EXCEPT !.dateId = dateId]
    /\ NoSends
    /\ UNCHANGED <<now, contracts, users, nextId, lastOp, dvars, stale, bg>>

\* deleteContractDate: the two filters and save()
DeleteSave ==
    /\ req.op = "delete"
    /\ LET c == req.c
           inMemory == deleteContractDateDoc(req.doc, req.dateId)
       IN  IF <<"req", c>> \notin stale
           THEN /\ contracts' = [contracts EXCEPT
                       ![c] = SetArrays(@, req.doc, inMemory)]
                /\ Raise("req", c)
                /\ lastOp' = "deleteContractDate"
           ELSE /\ lastOp' = "deleteContractDate:500"
                /\ Release("req", c)
                /\ UNCHANGED contracts
    /\ req' = NoRequest
    /\ NoSends
    /\ UNCHANGED <<now, users, nextId, dvars, bg>>

\* addCustomContractDate: findOne
AddFind(c, date) ==
    /\ req.op = "none"
    /\ owner[c] \in users
    /\ nextId < RaceMaxDates
    /\ req' = [Load("add", "save", c) EXCEPT !.date = date]
    /\ NoSends
    /\ UNCHANGED <<now, contracts, users, nextId, lastOp, dvars, stale, bg>>

\* addCustomContractDate: addContractDate, which pushes the date and saves
AddSave ==
    /\ req.op = "add" /\ req.pc = "save"
    /\ contracts' = [contracts EXCEPT ![req.c].contractDates =
           @ \o Pushed(req.doc.contractDates,
                       addContractDate(req.doc, nextId + 1, req.date).contractDates)]
    /\ Raise("req", req.c)
    /\ nextId' = nextId + 1
    /\ req' = [req EXCEPT !.pc = "process"]
    /\ lastOp' = "addCustomContractDate:addContractDate"
    /\ NoSends
    /\ UNCHANGED <<now, users, dvars, bg>>

\* processContractForDates in the request: findById, and the test for a
\* contract without dates
AddProcessFind ==
    /\ req.op = "add" /\ req.pc = "process"
    /\ req' = [req EXCEPT !.doc = contracts[req.c],
                          !.pc = IF contracts[req.c].contractDates = <<>>
                                 THEN "extract" ELSE "schedule"]
    /\ NoSends
    /\ UNCHANGED <<now, contracts, users, nextId, lastOp, dvars, stale, bg>>

\* processContractForDates in the request: extractContractDates is called
\* and returns or throws; dates it returns are assigned and saved.  An
\* error of the save ends processContractForDates in its catch.
AddExtract(threw, extracted) ==
    /\ req.op = "add" /\ req.pc = "extract"
    /\ nextId + Len(extracted) <= RaceMaxDates
    /\ LET c == req.c
       IN  IF threw \/ Len(extracted) = 0
           THEN /\ req' = [req EXCEPT !.pc = "schedule"]
                /\ Release("req", c)
                /\ UNCHANGED <<contracts, nextId>>
           ELSE IF <<"req", c>> \notin stale
           THEN /\ contracts' = [contracts EXCEPT ![c].contractDates =
                       ExtractedDates(extracted, nextId + 1)]
                /\ Raise("req", c)
                /\ nextId' = nextId + Len(extracted)
                /\ req' = [req EXCEPT !.pc = "schedule"]
           ELSE /\ req' = NoRequest
                /\ Release("req", c)
                /\ UNCHANGED <<contracts, nextId>>
    /\ lastOp' = "addCustomContractDate:extractContractDates"
    /\ NoSends
    /\ UNCHANGED <<now, users, dvars, bg>>

\* whether scheduleUpcomingAlerts, having loaded doc at t, saves it
PassModifies(doc, t) == ScheduleDoc(doc, t) # doc

\* the save of scheduleUpcomingAlerts: the alerts it pushed are appended
PassSave(stored, loaded, t) ==
    [stored EXCEPT !.dateAlerts =
        @ \o Pushed(loaded.dateAlerts, ScheduleDoc(loaded, t).dateAlerts)]

\* scheduleUpcomingAlerts at the end of the request: find and the loops.
\* One contract is stored in this specification, so the loop over the
\* contracts found has at most one turn.
AddPassFind ==
    /\ req.op = "add" /\ req.pc = "schedule"
    /\ IF PassModifies(contracts[req.c], now)
       THEN /\ req' = [req EXCEPT !.doc = contracts[req.c],
                                  !.t = now, !.pc = "schedsave"]
            /\ UNCHANGED lastOp
       ELSE /\ req' = NoRequest
            /\ lastOp' = "addCustomContractDate"
    /\ NoSends
    /\ UNCHANGED <<now, contracts, users, nextId, dvars, stale, bg>>

AddPassSave ==
    /\ req.op = "add" /\ req.pc = "schedsave"
    /\ contracts' = [contracts EXCEPT ![req.c] = PassSave(@, req.doc, req.t)]
    /\ Raise("req", req.c)
    /\ req' = NoRequest
    /\ lastOp' = "addCustomContractDate"
    /\ NoSends
    /\ UNCHANGED <<now, users, nextId, dvars, bg>>

\* the daily task: scheduleUpcomingAlerts, find and the loops
SchedFind(c) ==
    /\ bg.op = "none"
    /\ IF PassModifies(contracts[c], now)
       THEN /\ bg' = Load("schedule", "save", c)
            /\ UNCHANGED lastOp
       ELSE /\ bg' = NoRequest
            /\ lastOp' = "scheduleUpcomingAlerts"
    /\ NoSends
    /\ UNCHANGED <<now, contracts, users, nextId, dvars, stale, req>>

SchedSave ==
    /\ bg.op = "schedule"
    /\ contracts' = [contracts EXCEPT ![bg.c] = PassSave(@, bg.doc, bg.t)]
    /\ Raise("bg", bg.c)
    /\ bg' = NoRequest
    /\ lastOp' = "scheduleUpcomingAlerts"
    /\ NoSends
    /\ UNCHANGED <<now, users, nextId, dvars, req>>

\* cleanupOldAlerts: find and the two filters
SweepFind(c) ==
    /\ bg.op = "none"
    /\ IF CleanupQuery(contracts[c], now) /\ cleanupDoc(contracts[c], now) # contracts[c]
       THEN /\ bg' = Load("cleanup", "save", c)
            /\ UNCHANGED lastOp
       ELSE /\ bg' = NoRequest
            /\ lastOp' = "cleanupOldAlerts"
    /\ NoSends
    /\ UNCHANGED <<now, contracts, users, nextId, dvars, stale, req>>

\* cleanupOldAlerts: save() of the arrays it assigned
SweepSave ==
    /\ bg.op = "cleanup"
    /\ LET c == bg.c
       IN  IF <<"bg", c>> \notin stale
           THEN /\ contracts' = [contracts EXCEPT
                       ![c] = SetArrays(@, bg.doc, cleanupDoc(bg.doc, bg.t))]
                /\ Raise("bg", c)
                /\ lastOp' = "cleanupOldAlerts"
           ELSE /\ lastOp' = "cleanupOldAlerts:VersionError"
                /\ Release("bg", c)
                /\ UNCHANGED contracts
    /\ bg' = NoRequest
    /\ NoSends
    /\ UNCHANGED <<now, users, nextId, dvars, req>>

(***************************************************************************)
(* Specification: a user's requests, one at a time, while the daily task,  *)
(* a cleanup and the hourly task run, each taking its database steps in    *)
(* any order with the others'.  The Notifier delivers what it is given,    *)
(* and the days pass between the operations, not during them.              *)
(***************************************************************************)
\* no request, pass or Dispatcher run is in progress
Quiet == req.op = "none" /\ bg.op = "none" /\ AllIdle

\* the dates the requests store
RaceDates == {2}

\* the reminderDays of the toggle requests, in tenths
RaceToggles == {300}

NextRace ==
    \/ \E c \in DOMAIN contracts, id \in 1..RaceMaxDates, days \in RaceToggles, on \in BOOLEAN :
           ToggleFind(c, id, days, on)
    \/ ToggleSave
    \/ \E c \in DOMAIN contracts, id \in 1..RaceMaxDates : DeleteFind(c, id)
    \/ DeleteSave
    \/ \E c \in DOMAIN contracts, date \in RaceDates : AddFind(c, date)
    \/ AddSave
    \/ AddProcessFind
    \/ \E threw \in BOOLEAN, extracted \in ExtractorResults : AddExtract(threw, extracted)
    \/ AddPassFind
    \/ AddPassSave
    \/ \E c \in DOMAIN contracts : SchedFind(c)
    \/ SchedSave
    \/ \E c \in DOMAIN contracts : SweepFind(c)
    \/ SweepSave
    \/ DispatchFind(CronRun)
    \/ DispatchContract(CronRun)
    \/ DispatchSend(CronRun, TRUE)
    \/ DispatchSave(CronRun)
    \/ Quiet /\ ClockAdvance

SpecRace == Init /\ [][NextRace]_vars

(***************************************************************************)
(* Properties.  They describe the stored alerts on their own terms: an     *)
(* alert is named by its key (contract, contractDateId, reminderDays).     *)
(***************************************************************************)
AlertsAt(cs, k) ==
    IF k[1] \in DOMAIN cs
    THEN {a \in Range(cs[k[1]].dateAlerts) :
             a.contractDateId = k[2] /\ a.reminderDays = k[3]}
    ELSE {}

DatesAt(cs, c, id) == {d \in Range(cs[c].contractDates) : d.id = id}

AllKeys(cs) == UNION {AlertKeys(c, cs[c]) : c \in DOMAIN cs}

SentKeys(cs) == {k \in AllKeys(cs) : \E a \in AlertsAt(cs, k) : a.emailSent}

\* C1: when two Dispatcher runs overlap, no alert has the Notifier called
\* for it by both of them.
C1_OneRunSends ==
    \A w1 \in Runs, w2 \in Runs : w1 # w2 => wsent[w1] \cap wsent[w2] = {}

C3_Uniqueness ==
    \A c \in DOMAIN contracts :
        \A i \in 1..Len(contracts[c].dateAlerts), j \in 1..Len(contracts[c].dateAlerts) :
            i # j => AlertKey(c, contracts[c].dateAlerts[i])
                        # AlertKey(c, contracts[c].dateAlerts[j])

\* forceCreateAlert ran on a pair that had an alert, in a contract of two
\* dates with reconciled alerts
C3_Witness ==
    /\ lastOp = "forceCreateAlert:replace"
    /\ \E c \in DOMAIN contracts :
          Len(contracts[c].contractDates) = 2 /\ Len(contracts[c].dateAlerts) >= 4

\* the alerts findDueAlerts(now) describes
DueKeysAt(cs, t) ==
    {k \in AllKeys(cs) : \E a \in AlertsAt(cs, k) :
        a.scheduledDate <= t /\ a.isActive /\ ~a.emailSent}

\* cs with emailSent set on the alerts of the keys K and nothing else changed
WithSent(cs, K) ==
    [c \in DOMAIN cs |->
        [contractDates |-> cs[c].contractDates,
         dateAlerts |-> [i \in 1..Len(cs[c].dateAlerts) |->
             IF AlertKey(c, cs[c].dateAlerts[i]) \in K
             THEN [cs[c].dateAlerts[i] EXCEPT !.emailSent = TRUE]
             ELSE cs[c].dateAlerts[i]]]]

\* C4 (as claimed): a Dispatcher run with the Notifier succeeding calls it
\* for all and only the due alerts, marks exactly those sent and changes
\* nothing else.
C4_DispatcherExactness ==
    [][lastOp' = "checkAndSendAlerts" /\ failedSends' = {} =>
          /\ notified' = DueKeysAt(contracts, now)
          /\ contracts' = WithSent(contracts, DueKeysAt(contracts, now))]_vars

\* the due alerts the run can deliver: the contract's user document exists
\* and the alert's ContractDate is stored
Deliverable(cs, us, t) ==
    {k \in DueKeysAt(cs, t) : owner[k[1]] \in us /\ DatesAt(cs, k[1], k[2]) # {}}

\* C4 (amended): ... for all and only the due alerts of contracts whose user
\* exists and whose ContractDate is stored, marks exactly those sent and
\* changes nothing else.
C4_ExactForDeliverable ==
    [][lastOp' = "checkAndSendAlerts" /\ failedSends' = {} =>
          /\ notified' = Deliverable(contracts, users, now)
          /\ contracts' = WithSent(contracts, Deliverable(contracts, users, now))]_vars

\* a run sent some alert and left an active unsent alert that is not due
C4_Witness ==
    /\ lastOp = "checkAndSendAlerts"
    /\ failedSends = {}
    /\ notified # {}
    /\ notified \subseteq SentKeys(contracts)
    /\ \E k \in AllKeys(contracts) \ notified : \E a \in AlertsAt(contracts, k) :
          a.isActive /\ ~a.emailSent /\ a.scheduledDate > now

\* C5: in the step that calls the Notifier for an alert, the stored alert
\* already has emailSent = true.
C5_ClaimBeforeSend ==
    [][\A w \in Runs : \A k \in wsent'[w] \ wsent[w] :
          \A a \in AlertsAt(contracts, k) : a.emailSent]_vars

\* C6: the Notifier is called neither for an alert that is inactive nor for
\* an alert whose ContractDate is inactive.
C6_InactiveNeverNotified ==
    \A k \in notified :
        /\ \A a \in AlertsAt(contracts, k) : a.isActive
        /\ \A d \in DatesAt(contracts, k[1], k[2]) : d.isActive

\* the alerts a step created
Created(before, after) == AllKeys(after) \ AllKeys(before)

\* the (date, offset) pairs a reconciliation pass at t has to create, given
\* the dates it finds and the alerts stored before it
ToCreate(before, after, t) ==
    {k \in (DOMAIN after) \X (1..(MaxDates + 1)) \X {1, 3, 7, 14, 30} :
        /\ k \notin AllKeys(before)
        /\ \E d \in DatesAt(after, k[1], k[2]) :
              /\ d.isActive
              /\ d.date >= t /\ d.date <= t + 90
              /\ d.date - k[3] >= t}

PassOps == {"scheduleUpcomingAlerts", "addCustomContractDate", "getContractDates"}

\* C7: a reconciliation pass creates an alert for (d, o) exactly when d is
\* active, d.date is in [now, now + 90], d.date - o >= now and the pair has
\* no alert; each created alert is active, unsent and scheduled at
\* d.date - o; alerts that existed are not removed.
C7_Reconciliation ==
    [][lastOp' \in PassOps =>
          /\ Created(contracts, contracts') = ToCreate(contracts, contracts', now)
          /\ AllKeys(contracts) \subseteq AllKeys(contracts')
          /\ \A k \in Created(contracts, contracts') :
                \A a \in AlertsAt(contracts', k) :
                    /\ a.isActive /\ ~a.emailSent
                    /\ \A d \in DatesAt(contracts', k[1], k[2]) :
                          a.scheduledDate = d.date - k[3]]_vars

\* a pass at now found a date at now + 10 and a date beyond the horizon: the
\* first has alerts for 1, 3 and 7 only, the second has none
C7_Witness ==
    /\ lastOp \in PassOps
    /\ \E c \in DOMAIN contracts :
          \E d1 \in Range(contracts[c].contractDates),
             d2 \in Range(contracts[c].contractDates) :
              /\ d1.date = now + 10 /\ d1.isActive
              /\ {k[3] : k \in {x \in AllKeys(contracts) : x[2] = d1.id}} = {1, 3, 7}
              /\ d2.date > now + 90 /\ d2.isActive
              /\ {x \in AllKeys(contracts) : x[2] = d2.id} = {}

\* C8: right after a reconciliation pass, a second pass at the same now
\* changes nothing.
C8_IdempotentReconciliation ==
    lastOp \in PassOps => ScheduleAll(contracts, now) = contracts

\* a daily pass has just created the five alerts of a date that had come
\* into the horizon
C8_Witness ==
    /\ lastOp = "scheduleUpcomingAlerts"
    /\ now > 0
    /\ \E c \in DOMAIN contracts : \E d \in Range(contracts[c].contractDates) :
          /\ d.date > 90
          /\ {k[3] : k \in {x \in AllKeys(contracts) : x[2] = d.id}} = {1, 3, 7, 14, 30}

C10_ScheduledAtNeverStale ==
    \A c \in DOMAIN contracts : \A a \in Range(contracts[c].dateAlerts) :
        ~a.emailSent =>
            \A d \in DatesAt(contracts, c, a.contractDateId) :
                a.scheduledDate = d.date - a.reminderDays

\* an alert that was toggled off has just been toggled on again
C10_Witness ==
    /\ lastOp = "toggleDateAlert:reactivate"
    /\ \E k \in AllKeys(contracts) : \E a \in AlertsAt(contracts, k) :
          a.isActive /\ ~a.emailSent /\ a.reminderDays = 30

\* C11: a Notifier call that fails leaves its alert unsent and still due, the
\* other alerts the run called the Notifier for are marked sent, and a run
\* that follows at once calls the Notifier for the failed alerts again.
C11_FailureRetried ==
    [][lastOp' = "checkAndSendAlerts" =>
          /\ \A k \in failedSends' :
                /\ \A a \in AlertsAt(contracts', k) : ~a.emailSent
                /\ k \in DueKeysAt(contracts', now')
          /\ \A k \in notified' \ failedSends' :
                \A a \in AlertsAt(contracts', k) : a.emailSent
          /\ lastOp = "checkAndSendAlerts" => failedSends \subseteq notified']_vars

\* a run in which one Notifier call failed and another succeeded
C11_Witness ==
    /\ lastOp = "checkAndSendAlerts"
    /\ failedSends # {}
    /\ notified \ failedSends # {}
    /\ failedSends \subseteq DueKeysAt(contracts, now)
    /\ (notified \ failedSends) \subseteq SentKeys(contracts)

\* C14: a toggle request whose reminderDays is not one of 1, 3, 7, 14, 30 is
\* answered with the validation error and leaves every contract's dates and
\* alerts unchanged.
C14_InvalidOffsetRejected ==
    [][\A c \in DOMAIN contracts, id \in 1..MaxDates, on \in BOOLEAN :
          \A days \in ToggleInputs \ {10, 30, 70, 140, 300} :
              updateContractDateAlert(c, id, days, on) =>
                  /\ lastOp' = "updateContractDateAlert:400"
                  /\ contracts' = contracts]_vars

\* the number of stored alerts of key k
CountAt(cs, k) ==
    Cardinality({i \in 1..Len(cs[k[1]].dateAlerts) :
                    AlertKey(k[1], cs[k[1]].dateAlerts[i]) = k})

\* C15: after a toggle request with a valid offset for a stored date, the
\* pair has exactly one alert, its isActive is the requested value, and if
\* the pair had no alert the new one is unsent.
C15_UpsertOnToggle ==
    [][\A c \in DOMAIN contracts, id \in 1..MaxDates, on \in BOOLEAN :
          \A days \in {10, 30, 70, 140, 300} :
              (updateContractDateAlert(c, id, days, on)
                  /\ DatesAt(contracts, c, id) # {}) =>
                  LET k == <<c, id, days \div 10>>
                  IN  /\ CountAt(contracts', k) = 1
                      /\ \A a \in AlertsAt(contracts', k) : a.isActive = on
                      /\ AlertsAt(contracts, k) = {} =>
                            \A a \in AlertsAt(contracts', k) : ~a.emailSent]_vars

\* the toggle branches that leave the pair with an active unsent alert
ToggleOnOps ==
    {"toggleDateAlert:create", "toggleDateAlert:reactivate",
     "toggleDateAlert:recompute"}

\* C16: a toggle to active on a pair that has no alert or an unsent one,
\* whose date - offset is already past, leaves the pair with one active
\* unsent alert scheduled at date - offset (the skip rule of the
\* reconciliation pass is not applied), and a Dispatcher run that follows
\* calls the Notifier for it.
C16_PermissiveToggle ==
    [][/\ \A c \in DOMAIN contracts, id \in 1..MaxDates :
             \A d \in DatesAt(contracts, c, id) :
                 (/\ updateContractDateAlert(c, id, 300, TRUE)
                  /\ d.date - 30 < now
                  /\ \A a \in AlertsAt(contracts, <<c, id, 30>>) : ~a.emailSent) =>
                     /\ CountAt(contracts', <<c, id, 30>>) = 1
                     /\ \A a \in AlertsAt(contracts', <<c, id, 30>>) :
                           /\ a.isActive /\ ~a.emailSent
                           /\ a.scheduledDate = d.date - 30
                           /\ a.scheduledDate < now
       /\ (lastOp \in ToggleOnOps /\ lastOp' = "checkAndSendAlerts") =>
             DueKeysAt(contracts, now) \subseteq notified']_vars

\* a toggle has just created an active unsent alert for a date whose
\* date - 30 was past, and the alert is due
C16_Witness ==
    /\ lastOp = "toggleDateAlert:create"
    /\ \E k \in DueKeysAt(contracts, now) :
          /\ k[3] = 30
          /\ \E a \in AlertsAt(contracts, k) : a.scheduledDate < now
          /\ \E d \in DatesAt(contracts, k[1], k[2]) : d.date - 30 < now

\* C17: a reconciliation pass leaves every alert that was stored before it
\* as it was: same isActive, emailSent and scheduledDate, still one alert.
C17_ReconcileLeavesExisting ==
    [][lastOp' \in PassOps =>
          \A k \in AllKeys(contracts) :
              /\ AlertsAt(contracts', k) = AlertsAt(contracts, k)
              /\ CountAt(contracts', k) = CountAt(contracts, k)]_vars

\* a daily pass has run over a date it schedules, one of whose offsets the
\* user had disabled: the alert is still disabled
C17_Witness ==
    /\ lastOp = "scheduleUpcomingAlerts"
    /\ \E k \in AllKeys(contracts) :
          /\ \E a \in AlertsAt(contracts, k) : ~a.isActive /\ ~a.emailSent
          /\ \E d \in DatesAt(contracts, k[1], k[2]) :
                /\ d.isActive
                /\ d.date >= now /\ d.date <= now + 90
                /\ d.date - k[3] >= now

\* the ids of the dates stored in contract c
DateIds(cs, c) == {d.id : d \in Range(cs[c].contractDates)}

\* C18: deleteContractDate removes one date and every alert of that date,
\* and leaves the other dates and their alerts as they were.
C18_CascadeDelete ==
    [][lastOp' = "deleteContractDate" =>
          \E c \in DOMAIN contracts : \E id \in DateIds(contracts, c) :
              /\ DateIds(contracts', c) = DateIds(contracts, c) \ {id}
              /\ \A k \in AllKeys(contracts') : ~(k[1] = c /\ k[2] = id)
              /\ \A other \in DateIds(contracts', c) :
                    DatesAt(contracts', c, other) = DatesAt(contracts, c, other)
              /\ \A k \in AllKeys(contracts) :
                    ~(k[1] = c /\ k[2] = id) =>
                        /\ AlertsAt(contracts', k) = AlertsAt(contracts, k)
                        /\ CountAt(contracts', k) = CountAt(contracts, k)
              /\ \A x \in DOMAIN contracts : x # c => contracts'[x] = contracts[x]]_vars

\* the first of two dates was deleted; the second and its alerts are stored
C18_Witness ==
    /\ lastOp = "deleteContractDate"
    /\ \E c \in DOMAIN contracts :
          /\ DateIds(contracts, c) = {2}
          /\ {k[2] : k \in AlertKeys(c, contracts[c])} = {2}

C20_ExtractionPolicy ==
    [][/\ \A c \in DOMAIN contracts, extracted \in ExtractorResults :
             (getContractDates(c, FALSE, extracted) /\ Len(extracted) > 0) =>
                 /\ Len(contracts'[c].contractDates) = Len(extracted)
                 /\ \A i \in 1..Len(extracted) :
                       /\ contracts'[c].contractDates[i].date = extracted[i].date
                       /\ contracts'[c].contractDates[i].isActive
                              = (extracted[i].confidence = "high")
                       /\ extracted[i].confidence \in {"medium", "low"} =>
                              ~contracts'[c].contractDates[i].isActive
       /\ lastOp' \in PassOps =>
             \A k \in Created(contracts, contracts') :
                 \A d \in DatesAt(contracts', k[1], k[2]) : d.isActive]_vars

\* the extraction stored a date 10 days ahead as inactive and the pass that
\* followed created no alert for it
C20_Witness ==
    /\ lastOp = "getContractDates"
    /\ \E c \in DOMAIN contracts :
          /\ \E d \in Range(contracts[c].contractDates) :
                ~d.isActive /\ d.date = now + 10
          /\ contracts[c].dateAlerts = <<>>

\* the keys an alert can have
PossibleKeys == InitialContracts \X (1..MaxDates) \X {1, 3, 7, 14, 30}

\* C12: with the periodic tasks of init running, every alert that is active,
\* unsent and due is eventually sent or removed from its contract.
C12_EventuallySentOrSwept ==
    \A k \in PossibleKeys :
        (k \in DueKeysAt(contracts, now))
            ~> (k \in SentKeys(contracts) \/ k \notin AllKeys(contracts))

\* C13: with the periodic tasks of init running, every stored ContractDate
\* whose date has passed is eventually no longer stored.
C13_SweeperPeriodic ==
    \A c \in InitialContracts, id \in 1..MaxDates :
        (\E d \in DatesAt(contracts, c, id) : d.date < now)
            ~> (DatesAt(contracts, c, id) = {})

C22_OneContractOnly ==
    [][lastOp' \in {"analyzeContract:200", "addCustomContractDate"} =>
          Cardinality({x \in DOMAIN contracts : contracts'[x] # contracts[x]}
                      \cup (DOMAIN contracts' \ DOMAIN contracts)) <= 1]_vars

\* C23: forceCreateAlert on a stored ContractDate, whatever its isActive,
\* its distance and the sign of date - offset, leaves the pair with exactly
\* one alert, active, unsent and scheduled at date - offset; on a missing
\* contract or date it fails and changes nothing.
C23_ForceCreate ==
    [][\A c \in ContractIds, id \in 1..MaxDates, days \in ReminderInputs :
          forceCreateAlert(c, id, days) =>
              IF c \in DOMAIN contracts /\ DatesAt(contracts, c, id) # {}
              THEN /\ lastOp' # "forceCreateAlert:error"
                   /\ CountAt(contracts', <<c, id, days>>) = 1
                   /\ \A a \in AlertsAt(contracts', <<c, id, days>>) :
                         /\ a.isActive /\ ~a.emailSent
                         /\ \A d \in DatesAt(contracts, c, id) :
                               a.scheduledDate = d.date - days
              ELSE /\ lastOp' = "forceCreateAlert:error"
                   /\ contracts' = contracts]_vars

\* forceCreateAlert has just stored an alert for an inactive date whose
\* date - offset is past
C23_Witness ==
    /\ lastOp = "forceCreateAlert:new"
    /\ \E k \in AllKeys(contracts) :
          /\ \E d \in DatesAt(contracts, k[1], k[2]) :
                ~d.isActive /\ d.date - k[3] < now
          /\ \E a \in AlertsAt(contracts, k) :
                a.isActive /\ ~a.emailSent /\ a.scheduledDate < now

\* the requests of a user on the dates and alerts of a contract
DateRequestOps ==
    {"addCustomContractDate", "getContractDates", "getContractDates:none",
     "deleteContractDate"}

ToggleRequestOps ==
    {"toggleDateAlert:recompute", "toggleDateAlert:reactivate",
     "toggleDateAlert:on", "toggleDateAlert:off", "toggleDateAlert:create",
     "toggleDateAlert:none", "updateContractDateAlert:400"}

\* C25: no user request runs a reconciliation, dispatch or sweep pass: an
\* add-date, get-dates or delete-date request creates no alert, and no
\* request calls the Notifier, marks an alert sent or removes a date other
\* than the one a delete request names.
C25_NoPassInRequest ==
    [][/\ lastOp' \in DateRequestOps => Created(contracts, contracts') = {}
       /\ lastOp' \in DateRequestOps \cup ToggleRequestOps =>
             /\ notified' = {}
             /\ SentKeys(contracts') \subseteq SentKeys(contracts)
             /\ lastOp' # "deleteContractDate" =>
                   \A c \in DOMAIN contracts :
                       DateIds(contracts, c) \subseteq DateIds(contracts', c)]_vars

\* every alert names a date that is stored in its contract
ReferentialIntegrity ==
    \A k \in AllKeys(contracts) : DatesAt(contracts, k[1], k[2]) # {}

\* C29: with the operations run one at a time, every alert's contractDateId
\* is the id of a ContractDate stored in the same contract, and a toggle
\* request that names an unknown date creates no alert.
C29_ReferentialIntegrity ==
    /\ []ReferentialIntegrity
    /\ [][\A c \in DOMAIN contracts, id \in 1..MaxDates, on \in BOOLEAN :
             (updateContractDateAlert(c, id, 300, on)
                 /\ DatesAt(contracts, c, id) = {}) =>
                 contracts' = contracts]_vars

\* a toggle request has just named a date that was deleted, while the other
\* date has its alerts: nothing was created for the deleted date
C29_Witness ==
    /\ lastOp = "toggleDateAlert:none"
    /\ \E c \in DOMAIN contracts :
          /\ DateIds(contracts, c) = {2}
          /\ <<c, 2, 30>> \in AllKeys(contracts)
          /\ \A k \in AlertKeys(c, contracts[c]) : k[2] = 2

\* the dates that were more than 31 days ahead when they were stored
StoredFar(d) == d.date \in {t + ahead : t \in {0, 5}, ahead \in {32, 93}}

\* the offsets for which the date id of contract c has an alert
OffsetsOf(cs, c, id) == {k[3] : k \in {x \in AlertKeys(c, cs[c]) : x[2] = id}}

\* C30: with a reconciliation pass every day, an active date stored more
\* than 31 days ahead has its alerts for all five offsets by the time its
\* 30-day alert is scheduled, and every alert a pass creates is scheduled
\* at or after the now of the pass.
C30_FarDateCoverage ==
    /\ [](\A c \in DOMAIN contracts : \A d \in Range(contracts[c].contractDates) :
            (d.isActive /\ StoredFar(d) /\ now >= d.date - 30) =>
                OffsetsOf(contracts, c, d.id) = {1, 3, 7, 14, 30})
    /\ [][lastOp' \in PassOps =>
             \A k \in Created(contracts, contracts') :
                 \A a \in AlertsAt(contracts', k) : a.scheduledDate >= now]_vars

\* the 30-day alert of a date that was stored beyond the horizon has come
\* due, and the date has its five alerts
C30_Witness ==
    \E c \in DOMAIN contracts : \E d \in Range(contracts[c].contractDates) :
        /\ d.isActive /\ d.date = 93
        /\ now >= d.date - 30
        /\ OffsetsOf(contracts, c, d.id) = {1, 3, 7, 14, 30}
        /\ \E a \in AlertsAt(contracts, <<c, d.id, 30>>) : a.scheduledDate = 63


\* C24: with the requests and the background passes taking their database
\* steps in any order, no step of an add-date, delete-date or toggle
\* request calls the Extractor or the Notifier.
C24_RequestsCallNoService ==
    [][(req.op \in {"add", "delete", "toggle"} /\ req' # req) =>
          /\ lastOp' # "addCustomContractDate:extractContractDates"
          /\ wsent' = wsent]_vars

\* C26: when a run of cleanupOldAlerts has ended, every stored alert names
\* a date that is stored in its contract.
C26_SweepLeavesNoDangling == lastOp = "cleanupOldAlerts" => ReferentialIntegrity

\* C27: once the requests and passes that took their steps in between each
\* other have ended, no contract holds two alerts of one (contractDateId,
\* reminderDays), and every alert names a stored date.
C27_NoRaceOnOneContract == Quiet => (C3_Uniqueness /\ ReferentialIntegrity)

\* the stored alerts that have the key of alert i of the document run w
\* loaded for the contract it is working on
StoredAs(cs, w, i) ==
    AlertsAt(cs, AlertKey(Head(wtodo[w]), wdocs[w][Head(wtodo[w])].doc.dateAlerts[i]))

\* C28: a toggle request and a Dispatcher run on one contract lose none of
\* each other's updates: the save of the toggle leaves the alert's isActive
\* at the requested value and every alert's emailSent as it was; the save
\* of the run, with no save but toggles' since the run loaded the contract,
\* leaves every alert the run sent with emailSent = TRUE and every alert's
\* isActive as it was.
C28_NoLostUpdate ==
    [][/\ (req.op = "toggle" /\ lastOp' \in ToggleRequestOps /\ req'.op = "none") =>
             /\ \A a \in AlertsAt(contracts', <<req.c, req.dateId, req.reminderDays>>) :
                    a.isActive = req.isActive
             /\ \A k \in AllKeys(contracts) :
                    {a.emailSent : a \in AlertsAt(contracts', k)}
                        = {a.emailSent : a \in AlertsAt(contracts, k)}
       /\ \A w \in Runs :
             (/\ wpc[w] = "alerts" /\ wpc'[w] # "alerts"
              /\ lastOp \in ToggleRequestOps) =>
                 /\ \A i \in wmark[w] : \A a \in StoredAs(contracts', w, i) : a.emailSent
                 /\ \A k \in AllKeys(contracts) :
                        {a.isActive : a \in AlertsAt(contracts', k)}
                            = {a.isActive : a \in AlertsAt(contracts, k)}]_vars

====
